---- MODULE Spec2Model ----
(***************************************************************************)
(* Model of the peg solitaire solver (src/src/lib.rs, src/src/board.rs).   *)
(*                                                                         *)
(* Positions are 0-based as in the source; a board is a sequence of cell   *)
(* characters and At(b, i) reads b[i] of the source.                       *)
(***************************************************************************)
EXTENDS Integers, Sequences, FiniteSets, TLC

\* ------------------------------------------------------------------------
\* Cell characters (src/src/lib.rs:15-20)
\* ------------------------------------------------------------------------
Peg == "P"
Hole == "H"
CenterHole == "C"
CenterPeg == "D"
Dot == "."
NL == "\n"
CR == "\r"

MAX_COLUMN_COUNT == 40

\* ------------------------------------------------------------------------
\* Bounds of the model
\* ------------------------------------------------------------------------
\* interior rows / columns / cells of the generated bordered boards
MaxRows == 3
MaxCols == 3
MaxCells == 9
\* pegs of a generated board
MaxPegs == 3
\* length of the arbitrary (mostly malformed) input texts
MaxTextLen == 3
\* solve() calls that return true on one Solver
MaxTrueReturns == 2
\* rows / columns of the plain grids handed to validate_board
MaxGridRows == 5
MaxGridCols == 5
\* cells by which the last row of a grid may exceed the first row
MaxRagged == 6
\* distance of the width of a wide board from MAX_COLUMN_COUNT
MaxWide == 1

At(b, i) == b[i + 1]
InRange(b, i) == i >= 0 /\ i < Len(b)

\* ------------------------------------------------------------------------
\* Input texts
\* ------------------------------------------------------------------------
\* A bordered board of ri x ci interior cells, rows joined by line breaks,
\* the last row without one (the format of src/src/lib.rs:22-40).
BoardText(ri, ci, cells) ==
    LET w == ci + 4
        r == ri + 4
    IN [i \in 1 .. (r * (w + 1) - 1) |->
          LET row == (i - 1) \div (w + 1)
              col == (i - 1) % (w + 1)
          IN IF col = w THEN NL
             ELSE IF row >= 2 /\ row < r - 2 /\ col >= 2 /\ col < w - 2
                  THEN cells[(row - 2) * ci + (col - 2) + 1]
                  ELSE Dot]

\* cells with the positions in cs turned into center markers
MarkCenters(f, cs) ==
    [i \in DOMAIN f |->
        IF i \in cs THEN (IF f[i] = Peg THEN CenterPeg ELSE CenterHole)
        ELSE f[i]]

\* the interiors of the generated boards
Shapes ==
    {sh \in (1 .. MaxRows) \X (1 .. MaxCols) : sh[1] * sh[2] <= MaxCells}

Interiors(ri, ci) ==
    { g \in [1 .. ri * ci -> {Peg, Hole}] :
         Cardinality({i \in DOMAIN g : g[i] = Peg}) <= MaxPegs }

Alphabet == {Dot, Peg, Hole, CenterHole, CenterPeg, NL, CR}

\* The input is
\*  - a bordered board of pegs and holes with at most one center marker,
\*  - a bordered board of pegs with two center markers, or
\*  - an arbitrary short text.
IsInput(text) ==
    \/ \E sh \in Shapes : \E f \in Interiors(sh[1], sh[2]) :
          \E cs \in {{}} \cup {{c} : c \in DOMAIN f} :
             text = BoardText(sh[1], sh[2], MarkCenters(f, cs))
    \/ \E sh \in Shapes : \E c1, c2 \in 1 .. sh[1] * sh[2] :
          \E k1, k2 \in {CenterHole, CenterPeg} :
             /\ c1 < c2
             /\ text = BoardText(sh[1], sh[2],
                          [i \in 1 .. sh[1] * sh[2] |->
                              IF i = c1 THEN k1
                              ELSE IF i = c2 THEN k2 ELSE Peg])
    \/ \E n \in 0 .. MaxTextLen : text \in [1 .. n -> Alphabet]

\* A grid of r rows: r - 1 rows of w cells, each ended by a line break, and
\* a last row of lw cells without one.  Every cell is '.', but the cell at
\* index `cell` of the text (1-based), which holds sym.
GridText(r, w, lw, cell, sym) ==
    [i \in 1 .. ((r - 1) * (w + 1) + lw) |->
        IF i <= (r - 1) * (w + 1) /\ i % (w + 1) = 0 THEN NL
        ELSE IF i = cell THEN sym ELSE Dot]

\* grids with a last row of any width and at most one playable cell, put
\* anywhere
IsGrid(text) ==
    \E r \in 1 .. MaxGridRows : \E w \in 1 .. MaxGridCols :
       \E lw \in 0 .. (w + MaxRagged) :
          \E sym \in {Dot, Peg, CenterHole} :
             \E cell \in 1 .. ((r - 1) * (w + 1) + lw) :
                /\ sym = Dot => cell = 1
                /\ text = GridText(r, w, lw, cell, sym)

\* five-row grids about MAX_COLUMN_COUNT wide, empty or with one peg in the
\* middle row
IsWide(text) ==
    \E w \in (MAX_COLUMN_COUNT - 1 - MaxWide) .. (MAX_COLUMN_COUNT - 1 + MaxWide) :
       \E sym \in {Dot, Peg} :
          text = GridText(5, w, w, 2 * (w + 1) + 3, sym)

\* The English cross of lib.rs:221-231 (mark is the center-as-hole marker)
\* and of lib.rs:247-257 (mark is a plain hole).
CrossCells(mark) ==
    [i \in 1 .. 49 |->
        LET r == (i - 1) \div 7
            c == (i - 1) % 7
        IN IF (r < 2 \/ r > 4) /\ (c < 2 \/ c > 4) THEN Dot
           ELSE IF r = 3 /\ c = 3 THEN mark ELSE Peg]

BOARD == BoardText(7, 7, CrossCells(CenterHole))
BOARD_NO_CENTER == BoardText(7, 7, CrossCells(Hole))
\* the same cross with its center declared as a peg: 33 pegs and no hole
BOARD_FULL == BoardText(7, 7, CrossCells(CenterPeg))

\* ------------------------------------------------------------------------
\* board.rs
\* ------------------------------------------------------------------------
\* impl From<i32> for MoveDirection
MoveDirectionFrom(value) ==
    IF value = 1 THEN "Right"
    ELSE IF value = -1 THEN "Left"
    ELSE IF value > 1 THEN "Down"
    ELSE IF value < -1 THEN "Up"
    ELSE "Still"

\* One iteration of the loop of validate_board.  st.res is "run" while the
\* loop runs and "false" after a `return false`.  The unsigned subtractions
\* row_count - 2 and column_count - 3 underflow when the count is smaller:
\* a build with overflow checks panics there, a build without them wraps
\* the difference to a value near 2^64, above every row or column number,
\* so the comparison against it is true.  The loop is run with wrapping and
\* st.underflow records that a build with overflow checks panicked.
ValidateStep(st, ch, size) ==
    IF st.row_count = 0 THEN
        LET cc == st.column_count + 1
            rc == IF ch = NL THEN (size + 1) \div cc ELSE st.row_count
            rw == IF ch = NL THEN 1 ELSE st.row
        IN IF ch # Dot /\ ch # NL
           THEN [st EXCEPT !.column_count = cc, !.res = "false"]
           ELSE [st EXCEPT !.column_count = cc, !.row_count = rc, !.row = rw,
                           !.res = IF cc = MAX_COLUMN_COUNT THEN "false"
                                   ELSE "run"]
    ELSE
        LET c1 == st.row > 1
            under1 == c1 /\ st.row_count < 2
            c2 == c1 /\ (under1 \/ st.row < st.row_count - 2)
            c3 == c2 /\ st.column > 1
            under2 == c3 /\ st.column_count < 3
            interior == c3 /\ (under2 \/ st.column < st.column_count - 3)
            col == st.column + 1
            u == st.underflow \/ under1 \/ under2
        IN IF interior /\ ch \notin {Dot, Peg, Hole, CenterHole, CenterPeg}
           THEN [st EXCEPT !.res = "false", !.underflow = u]
           ELSE IF ~interior /\ ch # Dot /\ ch # NL
                THEN [st EXCEPT !.res = "false", !.underflow = u]
           ELSE IF ch = NL
                THEN IF col # st.column_count
                     THEN [st EXCEPT !.column = col, !.res = "false",
                                     !.underflow = u]
                     ELSE [st EXCEPT !.row = st.row + 1, !.column = 0,
                                     !.underflow = u]
                ELSE [st EXCEPT !.column = col, !.underflow = u]

RECURSIVE ValidateFrom(_, _, _)
ValidateFrom(b, i, st) ==
    IF i >= Len(b) \/ st.res # "run" THEN st
    ELSE ValidateFrom(b, i + 1, ValidateStep(st, At(b, i), Len(b)))

\* validate_board: res is the Boolean it returns when no subtraction
\* panics, underflow tells that one underflowed
validate_board(b) ==
    LET st == ValidateFrom(b, 0,
                 [row_count |-> 0, column_count |-> 0, row |-> 0,
                  column |-> 0, res |-> "run", underflow |-> FALSE])
    IN [res |-> st.res # "false", underflow |-> st.underflow]

\* One iteration of the loop of clear_border (board.rs:117-139): the scan
\* of validate_board, pushing the interior cells and the line breaks of
\* the interior rows.  st.panic records the panic!("Invalid board").
ClearStep(st, ch, size) ==
    IF st.row_count = 0 THEN
        LET cc == st.column_count + 1
        IN [st EXCEPT !.column_count = cc,
                      !.row_count = IF ch = NL THEN (size + 1) \div cc ELSE @,
                      !.row = IF ch = NL THEN 1 ELSE @,
                      !.panic = (cc = MAX_COLUMN_COUNT)]
    ELSE
        LET c1 == st.row > 1
            under1 == c1 /\ st.row_count < 2
            c2 == c1 /\ (under1 \/ st.row < st.row_count - 2)
            c3 == c2 /\ st.column > 1
            under2 == c3 /\ st.column_count < 3
            interior == c3 /\ (under2 \/ st.column < st.column_count - 3)
            pushed == IF interior THEN Append(st.new_board, ch)
                      ELSE st.new_board
            u == st.underflow \/ under1 \/ under2
        IN IF ch = NL
           THEN [st EXCEPT !.new_board = IF c2 THEN Append(pushed, ch)
                                         ELSE pushed,
                           !.row = @ + 1, !.column = 0, !.underflow = u]
           ELSE [st EXCEPT !.new_board = pushed, !.column = @ + 1,
                           !.underflow = u]

RECURSIVE ClearFrom(_, _, _)
ClearFrom(b, i, st) ==
    IF i >= Len(b) \/ st.panic THEN st
    ELSE ClearFrom(b, i + 1, ClearStep(st, At(b, i), Len(b)))

\* a u32 difference a - b: the number n when a >= b; when it underflows in
\* a build without overflow checks, the wrapped value 2^32 + n, kept as n
\* with the mark `wrapped`
WrappingSub(a, b) == [n |-> a - b, wrapped |-> a < b]

\* the counts of the GameBoard clear_border returns (board.rs:141-145)
ClearedCounts(st) ==
    [row_count |-> WrappingSub(st.row_count, 4),
     column_count |-> WrappingSub(st.column_count, 5)]

\* clear_border: the GameBoard it returns when nothing panics, whether it
\* hit panic!("Invalid board"), and whether a subtraction underflowed
clear_border(b) ==
    LET st == ClearFrom(b, 0,
                 [row_count |-> 0, column_count |-> 0, row |-> 0,
                  column |-> 0, new_board |-> <<>>, panic |-> FALSE,
                  underflow |-> FALSE])
    IN [board |-> st.new_board,
        row_count |-> ClearedCounts(st).row_count,
        column_count |-> ClearedCounts(st).column_count,
        panic |-> st.panic,
        underflow |-> st.underflow \/ st.row_count < 4
                         \/ st.column_count < 5]

\* ------------------------------------------------------------------------
\* lib.rs: Solver::init
\* ------------------------------------------------------------------------
\* a test that takes a center at index 0 for no center
CenterDefinedOffByOne(c) == c > 0

\* the test `center > -1` that guards a second center marker
CenterDefined(c) == c > -1

\* a decoding that does not count the center-as-peg marker as a peg
DecodeStepCenterPegUncounted(st, pos, field) ==
    IF st.err # "" THEN st
    ELSE IF field \in {CenterHole, CenterPeg} THEN
        IF CenterDefined(st.center)
        THEN [st EXCEPT !.err = "Center already defined"]
        ELSE [st EXCEPT !.center = pos,
                        !.board = Append(@, IF field = CenterPeg THEN Peg
                                            ELSE Hole)]
    ELSE [st EXCEPT !.board = Append(@, field),
                    !.peg_count = IF field = Peg THEN @ + 1 ELSE @]

\* One iteration of the decoding loop of init (lib.rs:85-105).
DecodeStep(st, pos, field) ==
    IF st.err # "" THEN st
    ELSE IF field = CenterHole THEN
        IF CenterDefined(st.center)
        THEN [st EXCEPT !.err = "Center already defined"]
        ELSE [st EXCEPT !.center = pos, !.board = Append(@, Hole)]
    ELSE IF field = CenterPeg THEN
        IF CenterDefined(st.center)
        THEN [st EXCEPT !.err = "Center already defined"]
        ELSE [st EXCEPT !.center = pos, !.board = Append(@, Peg),
                        !.peg_count = @ + 1]
    ELSE [st EXCEPT !.board = Append(@, field),
                    !.peg_count = IF field = Peg THEN @ + 1 ELSE @]

RECURSIVE DecodeFrom(_, _, _)
DecodeFrom(text, pos, st) ==
    IF pos >= Len(text) \/ st.err # "" THEN st
    ELSE DecodeFrom(text, pos + 1, DecodeStep(st, pos, At(text, pos)))

Decode(text) ==
    DecodeFrom(text, 0, [center |-> -1, board |-> <<>>, peg_count |-> 0,
                         err |-> ""])

\* init(init_board, row_length) up to the construction of the Solver: the
\* decoded fields, the Err message ("" for Ok), and whether validate_board
\* underflowed on the way
init(text) ==
    LET d == Decode(text)
        v == IF d.err = "" THEN validate_board(d.board)
             ELSE [res |-> FALSE, underflow |-> FALSE]
    IN [center |-> d.center, board |-> d.board, peg_count |-> d.peg_count,
        err |-> IF d.err # "" THEN d.err
                ELSE IF ~v.res THEN "Invalid board" ELSE "",
        underflow |-> v.underflow]

\* init_from_file: contents.replace("\r", "") and contents.find('\n')
RemoveCR(text) == SelectSeq(text, LAMBDA ch : ch # CR)

FindNL(text) ==
    IF \E i \in 1 .. Len(text) : text[i] = NL
    THEN (CHOOSE i \in 1 .. Len(text) :
             text[i] = NL /\ \A j \in 1 .. (i - 1) : text[j] # NL) - 1
    ELSE -1

\* ------------------------------------------------------------------------
\* lib.rs: moves
\* ------------------------------------------------------------------------
\* a move that also empties the cell behind the jumping peg
MakeMoveClearsBehind(b, pos, dir) ==
    [b EXCEPT ![pos + 1] = Hole, ![pos + dir + 1] = Hole,
              ![pos + 2 * dir + 1] = Peg, ![pos - dir + 1] = Hole]

make_move(b, pos, dir) ==
    [b EXCEPT ![pos + 1] = Hole, ![pos + dir + 1] = Hole,
              ![pos + 2 * dir + 1] = Peg]

\* a revert that leaves the landed peg where it is
UnmoveKeepsLanding(b, pos, dir) ==
    [b EXCEPT ![pos + 1] = Peg, ![pos + dir + 1] = Peg]

unmove(b, pos, dir) ==
    [b EXCEPT ![pos + 1] = Peg, ![pos + dir + 1] = Peg,
              ![pos + 2 * dir + 1] = Hole]

\* the test of lib.rs:145-147 on cells known to be inside the board
IsLegal(b, pos, dir) ==
    At(b, pos) = Peg /\ At(b, pos + dir) = Peg /\ At(b, pos + 2 * dir) = Hole

\* board.iter().enumerate().filter(|p| *p.1 == '●'): peg positions ascending
PegPositions(b) ==
    SelectSeq([i \in 1 .. Len(b) |-> i - 1], LAMBDA p : At(b, p) = Peg)

\* directions that repeat Right in the place of Down
DirsNoDown(rl) == <<-1, -rl, 1, 1>>

\* dirs of lib.rs:163
Dirs(rl) == <<-1, -rl, 1, rl>>

\* a scan that starts over at the first pair
ScanStartZero(skip) == 0

\* the first index the scan looks at: .skip(skip_items)
ScanStart(skip) == skip

\* a test that lets a peg land on any cell that holds no peg
JumpTestAnyLanding(b, pos, dir) ==
    IF ~InRange(b, pos + dir) THEN "oob"
    ELSE IF At(b, pos + dir) # Peg THEN "no"
    ELSE IF ~InRange(b, pos + 2 * dir) THEN "oob"
    ELSE IF At(b, pos + 2 * dir) # Peg THEN "legal" ELSE "no"

\* the test of lib.rs:145-147 for the peg at pos, its && evaluated left to
\* right: "oob" when an index expression falls outside the board (the slice
\* access panics)
JumpTest(b, pos, dir) ==
    IF ~InRange(b, pos + dir) THEN "oob"
    ELSE IF At(b, pos + dir) # Peg THEN "no"
    ELSE IF ~InRange(b, pos + 2 * dir) THEN "oob"
    ELSE IF At(b, pos + 2 * dir) = Hole THEN "legal" ELSE "no"

\* the first direction, from the d-th on, in which the test of the peg at
\* pos is not "no"; 4 if there is none
FirstDir(b, dirs, pos, d) ==
    IF d <= 0 /\ JumpTest(b, pos, dirs[1]) # "no" THEN 0
    ELSE IF d <= 1 /\ JumpTest(b, pos, dirs[2]) # "no" THEN 1
    ELSE IF d <= 2 /\ JumpTest(b, pos, dirs[3]) # "no" THEN 2
    ELSE IF JumpTest(b, pos, dirs[4]) # "no" THEN 3
    ELSE 4

\* find_next_move from index k of iproduct!(pegs, dirs), one peg after
\* the other.  oob is TRUE when the scan panicked at the returned pair.
RECURSIVE FindFrom(_, _, _, _)
FindFrom(b, dirs, pegs, k) ==
    IF k >= 4 * Len(pegs)
    THEN [pos |-> -1, dir |-> 0, index |-> 0, oob |-> FALSE]
    ELSE LET pos == pegs[(k \div 4) + 1]
             j == FirstDir(b, dirs, pos, k % 4)
         IN IF j = 4
            THEN FindFrom(b, dirs, pegs, 4 * ((k \div 4) + 1))
            ELSE [pos |-> pos, dir |-> dirs[j + 1],
                  index |-> 4 * (k \div 4) + j,
                  oob |-> JumpTest(b, pos, dirs[j + 1]) = "oob"]

find_next_move(b, dirs, skip) ==
    FindFrom(b, dirs, PegPositions(b), ScanStart(skip))

\* a resumption at the index of the reverted move itself
ResumeIndexSame(last_move) == last_move[3]

\* the index a backtrack resumes the scan at (lib.rs:186)
ResumeIndex(last_move) == last_move[3] + 1

\* the replay loop of lib.rs:192-199: one GameMove per stacked move, each
\* with the board before the move
RECURSIVE Replay(_, _, _)
Replay(b, ms, i) ==
    IF i > Len(ms) THEN [board |-> b, solution |-> <<>>]
    ELSE LET r == Replay(make_move(b, ms[i][1], ms[i][2]), ms, i + 1)
         IN [board |-> r.board,
             solution |-> <<[board |-> b, start_pos |-> ms[i][1],
                             direction |-> MoveDirectionFrom(ms[i][2])]>>
                          \o r.solution]

\* the sentinel pushed at lib.rs:200-204
Sentinel(b) == [board |-> b, start_pos |-> 0, direction |-> MoveDirectionFrom(0)]

\* a solution whose snapshots are all the board the replay started from
SolutionTailStale(b, ms) ==
    [i \in 1 .. Len(ms) |->
        [board |-> b, start_pos |-> ms[i][1],
         direction |-> MoveDirectionFrom(ms[i][2])]] \o <<Sentinel(b)>>

\* a solution without its sentinel
SolutionTailNoSentinel(b, ms) == Replay(b, ms, 1).solution

\* what a successful solve() appends to the solution
SolutionTail(b, ms) ==
    LET r == Replay(b, ms, 1) IN r.solution \o <<Sentinel(r.board)>>

\* ------------------------------------------------------------------------
\* State
\* ------------------------------------------------------------------------
VARIABLES
    input,            \* the text handed to init / read from the file
    pc,               \* "new", "error", "init_panicked", "ready", "solving",
                      \* "panicked" (inside solve)
    err,              \* the message of the Err init returned
    overflow_checks,  \* "unknown" until an unsigned subtraction underflows,
                      \* then "on" (it panicked) or "off" (it wrapped)
    row_length, board, center, peg_count, solution,   \* the Solver's fields
    last, board_clone, moves, skip_items, max_move_count, \* locals of solve
    result,           \* what the last solve() returned: "none" while it runs
    trueReturns,      \* number of solve() calls that returned true
    tried,            \* history of the running solve(): for each prefix of
                      \* the move stack, the moves (pos, dir) applied so far
                      \* after that prefix
    game_board        \* the GameBoard clear_border returned for the board,
                      \* as a one-element sequence: empty before the call

vars == <<input, pc, err, overflow_checks, row_length, board, center,
          peg_count, solution, last, board_clone, moves, skip_items,
          max_move_count, result, trueReturns, tried, game_board>>

fields == <<row_length, board, center, peg_count>>
locals == <<last, board_clone, moves, skip_items, max_move_count>>

\* nothing has been called yet
Fresh ==
    /\ pc = "new"
    /\ err = ""
    /\ overflow_checks = "unknown"
    /\ row_length = 0
    /\ board = <<>>
    /\ center = -1
    /\ peg_count = 0
    /\ solution = <<>>
    /\ last = -1
    /\ board_clone = <<>>
    /\ moves = <<>>
    /\ skip_items = 0
    /\ max_move_count = 0
    /\ result = "none"
    /\ trueReturns = 0
    /\ tried = <<>>
    /\ game_board = <<>>

Init == IsInput(input) /\ Fresh

\* a build with (checked) / without overflow checks agrees with what the
\* run has shown so far
Build(checked) ==
    \/ overflow_checks = "unknown"
    \/ overflow_checks = (IF checked THEN "on" ELSE "off")

\* the program returns from init with outcome o, row_length being rl
InitReturns(o, rl) ==
    /\ IF o.err # ""
       THEN /\ pc' = "error"
            /\ UNCHANGED fields
       ELSE /\ pc' = "ready"
            /\ row_length' = rl
            /\ board' = o.board
            /\ center' = o.center
            /\ peg_count' = o.peg_count
    /\ err' = o.err
    /\ overflow_checks' = IF o.underflow THEN "off" ELSE overflow_checks
    /\ UNCHANGED <<game_board, input, solution, locals, result, trueReturns, tried>>

\* validate_board panics inside init
InitPanics ==
    /\ pc' = "init_panicked"
    /\ overflow_checks' = "on"
    /\ UNCHANGED <<game_board, input, err, fields, solution, locals, result, trueReturns,
                   tried>>

\* the row lengths a caller passes (init takes any i32): the row width
\* with its line break, the width without it, and the length of the text
RowLengths(text) ==
    LET n == FindNL(text)
    IN {n + 1, Len(text)} \cup (IF n >= 0 THEN {n} ELSE {})

\* Solver::init(input, rl)
InitCall ==
    /\ pc = "new"
    /\ \E o \in {init(input)} :
         \E rl \in RowLengths(input) :
            IF o.underflow
            THEN \E checked \in BOOLEAN :
                    IF checked THEN InitPanics ELSE InitReturns(o, rl)
            ELSE InitReturns(o, rl)

\* Solver::init_from_file on a file holding `input`
InitFromFile ==
    /\ pc = "new"
    /\ \E contents \in {RemoveCR(input)} :
       \E n \in {FindNL(contents)} :
          IF n < 0
          THEN /\ pc' = "error"
               /\ err' = "Invalid content"
               /\ UNCHANGED <<game_board, input, overflow_checks, fields, solution,
                              locals, result, trueReturns, tried>>
          ELSE \E o \in {init(contents)} :
                 IF o.underflow
                 THEN \E checked \in BOOLEAN :
                         IF checked THEN InitPanics ELSE InitReturns(o, n + 1)
                 ELSE InitReturns(o, n + 1)

\* entry of solve(): lib.rs:161-167
SolveEnter ==
    /\ pc = "ready"
    /\ trueReturns < MaxTrueReturns
    /\ pc' = "solving"
    /\ last' = -1
    /\ board_clone' = board
    /\ moves' = <<>>
    /\ skip_items' = 0
    /\ max_move_count' = 0
    /\ result' = "none"
    /\ tried' = <<{}>>
    /\ UNCHANGED <<game_board, input, err, overflow_checks, fields, solution, trueReturns>>

\* peg_count - 1 on u32 underflows
Underflows == peg_count = 0

\* a loop condition that forgets the center
LoopCondNoCenter ==
    IF Underflows THEN TRUE ELSE Len(moves) < peg_count - 1

\* the loop condition of lib.rs:169-170; a wrapped peg_count - 1 is
\* 2^32 - 1, above the length of any move stack
LoopCond ==
    \/ (IF Underflows THEN TRUE ELSE Len(moves) < peg_count - 1)
    \/ ~(center < 0 \/ last = center)

Found == find_next_move(board, Dirs(row_length), skip_items)

\* the stack frame of solve() is gone
Return(res) ==
    /\ pc' = "ready"
    /\ result' = res
    /\ last' = -1
    /\ board_clone' = <<>>
    /\ moves' = <<>>
    /\ skip_items' = 0
    /\ max_move_count' = 0
    /\ tried' = <<>>

\* lib.rs:173-182
Descend ==
    /\ pc = "solving"
    /\ Underflows => Build(FALSE)
    /\ LoopCond
    /\ \E f \in {Found} :
        /\ ~f.oob
        /\ f.pos > 0
        /\ board' = make_move(board, f.pos, f.dir)
        /\ last' = f.pos + 2 * f.dir
        /\ moves' = Append(moves, <<f.pos, f.dir, f.index>>)
        /\ tried' = Append([tried EXCEPT ![Len(tried)] =
                                          @ \cup {<<f.pos, f.dir>>}], {})
    /\ skip_items' = 0
    /\ max_move_count' = IF Len(moves) + 1 > max_move_count
                         THEN max_move_count + 1 ELSE max_move_count
    /\ overflow_checks' = IF Underflows THEN "off" ELSE overflow_checks
    /\ UNCHANGED <<game_board, input, pc, err, row_length, center, peg_count, solution,
                   board_clone, result, trueReturns>>

\* the scan found nothing: `pos > 0` is false and nothing panicked
NoMove == \E f \in {Found} : ~f.oob /\ ~(f.pos > 0)

\* lib.rs:183-186
Backtrack ==
    /\ pc = "solving"
    /\ Underflows => Build(FALSE)
    /\ LoopCond
    /\ moves # <<>>
    /\ NoMove
    /\ LET last_move == moves[Len(moves)] IN
        /\ moves' = SubSeq(moves, 1, Len(moves) - 1)
        /\ board' = unmove(board, last_move[1], last_move[2])
        /\ skip_items' = ResumeIndex(last_move)
    /\ tried' = SubSeq(tried, 1, Len(tried) - 1)
    /\ overflow_checks' = IF Underflows THEN "off" ELSE overflow_checks
    /\ UNCHANGED <<game_board, input, pc, err, row_length, center, peg_count, solution,
                   last, board_clone, max_move_count, result, trueReturns>>

\* lib.rs:187-189
ReturnFalse ==
    /\ pc = "solving"
    /\ Underflows => Build(FALSE)
    /\ LoopCond
    /\ moves = <<>>
    /\ NoMove
    /\ Return("false")
    /\ overflow_checks' = IF Underflows THEN "off" ELSE overflow_checks
    /\ UNCHANGED <<game_board, input, err, fields, solution, trueReturns>>

\* the loop ends: lib.rs:192-206
ReturnTrue ==
    /\ pc = "solving"
    /\ Underflows => Build(FALSE)
    /\ ~LoopCond
    /\ solution' = solution \o SolutionTail(board_clone, moves)
    /\ Return("true")
    /\ trueReturns' = trueReturns + 1
    /\ overflow_checks' = IF Underflows THEN "off" ELSE overflow_checks
    /\ UNCHANGED <<game_board, input, err, fields>>

\* a panic inside solve(): peg_count - 1 underflows in a build with
\* overflow checks, or find_next_move indexes outside the board
Panics ==
    \/ Underflows /\ Build(TRUE)
    \/ LoopCond /\ Found.oob

SolvePanic ==
    /\ pc = "solving"
    /\ Panics
    /\ pc' = "panicked"
    /\ overflow_checks' = IF Underflows THEN "on" ELSE overflow_checks
    /\ UNCHANGED <<game_board, input, err, fields, solution, locals, result, trueReturns,
                   tried>>

\* clear_border(&board) on the board of the Solver, as the rendering of
\* solution.rs:30 calls it on a board of the solution
ClearBorder ==
    /\ pc = "ready"
    /\ game_board = <<>>
    /\ \E o \in {clear_border(board)} :
         \E checked \in BOOLEAN :
            /\ Build(checked)
            /\ IF o.panic \/ (o.underflow /\ checked)
               THEN /\ pc' = "border_panicked"
                    /\ UNCHANGED game_board
               ELSE /\ pc' = pc
                    /\ game_board' = <<[board |-> o.board,
                                         row_count |-> o.row_count,
                                         column_count |-> o.column_count]>>
            /\ overflow_checks' =
                  IF o.underflow /\ ~o.panic
                  THEN (IF checked THEN "on" ELSE "off")
                  ELSE overflow_checks
    /\ UNCHANGED <<input, err, fields, solution, locals, result, trueReturns,
                   tried>>

Next ==
    \/ InitCall
    \/ InitFromFile
    \/ SolveEnter
    \/ Descend
    \/ Backtrack
    \/ ReturnFalse
    \/ ReturnTrue
    \/ SolvePanic

Spec == Init /\ [][Next]_vars

\* solve() runs to its end once called: the thread is not suspended
FairSpec ==
    Spec /\ WF_vars(Descend \/ Backtrack \/ ReturnFalse \/ ReturnTrue
                       \/ SolvePanic)

\* The program run on a board file, as main.rs does: the generated inputs,
\* the two English crosses of the tests and the cross without a hole, read
\* by init_from_file.
InitCross ==
    /\ IsInput(input) \/ input \in {BOARD, BOARD_NO_CENTER, BOARD_FULL}
    /\ Fresh

NextCross ==
    \/ InitFromFile
    \/ SolveEnter
    \/ Descend
    \/ Backtrack
    \/ ReturnFalse
    \/ ReturnTrue
    \/ SolvePanic

SpecCross == InitCross /\ [][NextCross]_vars

\* init on the texts validate_board has to tell apart: plain grids with a
\* ragged last row or a misplaced cell, wide grids, and the English cross.
InitValidate == (IsGrid(input) \/ IsWide(input) \/ input = BOARD) /\ Fresh

NextValidate ==
    \/ InitCall
    \/ InitFromFile

SpecValidate == InitValidate /\ [][NextValidate]_vars

\* clear_border on the boards init accepts: the generated boards, the
\* plain grids and the English cross
InitBorder == (IsInput(input) \/ IsGrid(input) \/ input = BOARD) /\ Fresh

NextBorder ==
    \/ InitCall
    \/ InitFromFile
    \/ ClearBorder

SpecBorder == InitBorder /\ [][NextBorder]_vars

\* ------------------------------------------------------------------------
\* Vocabulary of the properties, stated on the input text and on the rules
\* of the game rather than on the solver's own bookkeeping
\* ------------------------------------------------------------------------
PegsOf(b) == {i \in 0 .. Len(b) - 1 : At(b, i) = Peg}

CenterMarkers(text) ==
    {i \in 0 .. Len(text) - 1 : At(text, i) \in {CenterHole, CenterPeg}}

\* the index of the center marker of the input, -1 without one
DeclaredCenter ==
    IF CenterMarkers(input) = {} THEN -1
    ELSE CHOOSE i \in CenterMarkers(input) :
            \A j \in CenterMarkers(input) : i <= j

\* the input with its center marker read as a plain hole or peg
InitialBoard ==
    [i \in 1 .. Len(input) |->
        IF input[i] = CenterHole THEN Hole
        ELSE IF input[i] = CenterPeg THEN Peg ELSE input[i]]

\* the width of the first row of the input, line break included
RowWidth == FindNL(input) + 1

RowLengthOk == row_length = RowWidth

\* a jump of the game: peg, peg, hole in a straight line on the board
JumpOk(b, p, d) ==
    /\ InRange(b, p) /\ InRange(b, p + d) /\ InRange(b, p + 2 * d)
    /\ At(b, p) = Peg /\ At(b, p + d) = Peg /\ At(b, p + 2 * d) = Hole

Jump(b, p, d) ==
    [i \in 1 .. Len(b) |->
        IF i - 1 = p \/ i - 1 = p + d THEN Hole
        ELSE IF i - 1 = p + 2 * d THEN Peg ELSE b[i]]

\* some sequence of jumps with steps in ds takes b to a single peg that
\* sits on c when c is a position
RECURSIVE Solvable(_, _, _)
Solvable(b, ds, c) ==
    IF Cardinality(PegsOf(b)) = 1
    THEN c < 0 \/ PegsOf(b) = {c}
    ELSE \E p \in PegsOf(b) : \E d \in ds :
            JumpOk(b, p, d) /\ Solvable(Jump(b, p, d), ds, c)

GridSteps == {-1, 1, -RowWidth, RowWidth}

\* a solve() call has returned
Returned == pc = "ready" /\ result # "none"

\* ... and it was the first call, or a call that behaves as the first one
\* (every call before it returned false, leaving the Solver as it was)
FirstReturned ==
    /\ Returned
    /\ \/ result = "true" /\ trueReturns = 1
       \/ result = "false" /\ trueReturns = 0

\* the step a recorded direction stands for
StepOf(direction) ==
    CASE direction = "Left" -> -1
      [] direction = "Right" -> 1
      [] direction = "Up" -> -row_length
      [] direction = "Down" -> row_length
      [] OTHER -> 0

\* ------------------------------------------------------------------------
\* Properties
\* ------------------------------------------------------------------------

\* C1: on a valid board with at least two pegs and the right row_length,
\* the first solve() returns true exactly when some sequence of legal jumps
\* leads from the initial board to a single peg (on the center when one is
\* declared), and false otherwise.
C1_SolveIffSolvable ==
    (FirstReturned /\ RowLengthOk /\ Cardinality(PegsOf(InitialBoard)) >= 2)
        => (result = "true" <=> Solvable(InitialBoard, GridSteps, DeclaredCenter))

\* a search that had to take a jump in a column and a jump in a row, and to
\* end on the declared center
C1_Witness ==
    /\ FirstReturned /\ RowLengthOk /\ result = "true"
    /\ DeclaredCenter >= 0
    /\ Len(solution) >= 3
    /\ \E i, j \in 1 .. Len(solution) :
          solution[i].direction \in {"Up", "Down"}
          /\ solution[j].direction \in {"Left", "Right"}

\* C2: whenever solve() returns true the last board of the solution holds
\* exactly one peg, on the declared center when there is one.
C2_FinalBoardSinglePeg ==
    (Returned /\ result = "true")
        => /\ solution # <<>>
           /\ LET fb == solution[Len(solution)].board IN
                /\ Cardinality(PegsOf(fb)) = 1
                /\ DeclaredCenter >= 0 => PegsOf(fb) = {DeclaredCenter}

C2_Witness ==
    /\ Returned /\ result = "true"
    /\ DeclaredCenter >= 0
    /\ Cardinality(PegsOf(InitialBoard)) >= 3
    /\ PegsOf(solution[Len(solution)].board) = {DeclaredCenter}

\* the element is the sentinel of lib.rs:200-204
IsSentinel(m) == m.direction = "Still" /\ m.start_pos = 0

\* C3: whenever solve() returns true the solution is non-empty, ends with
\* the sentinel (Still, start_pos 0), has no Still element before it, and
\* every earlier element is a legal jump on the snapshot it carries.
C3_SolutionWellFormed ==
    (Returned /\ result = "true")
        => /\ solution # <<>>
           /\ IsSentinel(solution[Len(solution)])
           /\ \A i \in 1 .. Len(solution) - 1 :
                 /\ solution[i].direction # "Still"
                 /\ JumpOk(solution[i].board, solution[i].start_pos,
                           StepOf(solution[i].direction))

\* C4: after a successful first solve() the first snapshot is the board
\* init decoded, each next snapshot is the previous one with the previous
\* element's jump applied, and the sentinel carries the board after the
\* last jump.
C4_SolutionChronological ==
    (FirstReturned /\ result = "true")
        => /\ solution # <<>>
           /\ solution[1].board = InitialBoard
           /\ \A i \in 1 .. Len(solution) - 1 :
                 solution[i + 1].board =
                    Jump(solution[i].board, solution[i].start_pos,
                         StepOf(solution[i].direction))

C4_Witness ==
    /\ FirstReturned /\ result = "true"
    /\ Len(solution) >= 3
    /\ solution[1].board = InitialBoard
    /\ solution[2].board # solution[1].board
    /\ solution[Len(solution)].board # solution[Len(solution) - 1].board

\* C6: a valid board with exactly one peg is already solved: solve()
\* returns true exactly when no center is declared or the peg sits on the
\* declared center.
C6_SinglePegGoal ==
    (FirstReturned /\ Cardinality(PegsOf(InitialBoard)) = 1)
        => (result = "true"
              <=> (DeclaredCenter < 0 \/ PegsOf(InitialBoard) = {DeclaredCenter}))

\* C7: the solution is empty as long as no solve() call has returned true,
\* and once one has, no later step changes it.
C7_SolutionPopulatedOnce ==
    [][ /\ trueReturns' = 0 => solution' = <<>>
        /\ trueReturns > 0 => solution' = solution ]_vars

\* C5: when the first solve() returns true the solution has as many
\* elements as the board had pegs: one jump per peg but the last, then one
\* Still sentinel; for the English cross with its center hole (32 pegs),
\* with or without a declared center, solve() succeeds with 32 elements.
C5_SolutionLength ==
    /\ (FirstReturned /\ result = "true")
          => /\ Len(solution) = Cardinality(PegsOf(InitialBoard))
             /\ \A i \in 1 .. Len(solution) :
                   (solution[i].direction = "Still") <=> (i = Len(solution))
    /\ (FirstReturned /\ input \in {BOARD, BOARD_NO_CENTER})
          => result = "true" /\ Len(solution) = 32

C5_Witness ==
    /\ FirstReturned /\ result = "true"
    /\ input = BOARD
    /\ Len(solution) = 32

\* C8: with the right row_length solve() terminates: every call reaches
\* the success exit or the `return false` exit.
C8_SolveTerminates == (pc = "solving" /\ RowLengthOk) ~> Returned

\* C9: on a Solver whose board holds no peg, solve() returns false:
\* peg_count - 1 does not underflow, so the call does not panic.
C9_ZeroPegsReturnFalse ==
    (peg_count = 0 /\ pc \in {"ready", "solving", "panicked"})
        => /\ pc # "panicked"
           /\ Returned => result = "false"

\* with at least one peg on the board and the right row_length every
\* solve() call returns
SolveReturnsWithPegs ==
    (pc = "solving" /\ RowLengthOk /\ peg_count > 0) ~> Returned

\* C10: init on a text with two or more center markers returns the error
\* "Center already defined" and builds no Solver, whatever else is right
\* or wrong with the text.
C10_TwoCentersRejected ==
    [][(InitCall /\ Cardinality(CenterMarkers(input)) >= 2)
          => /\ pc' = "error"
             /\ err' = "Center already defined"
             /\ UNCHANGED <<fields, solution>>]_vars

\* the rejected text is a well-formed board but for its second center
C10_Witness ==
    /\ pc = "error"
    /\ err = "Center already defined"
    /\ Cardinality(CenterMarkers(input)) >= 2
    /\ validate_board(InitialBoard).res

\* C11: when init returns Ok the decoded board is as long as the text and
\* equals it cell for cell but for the center marker, read as a hole or as
\* a peg; center is the index of that marker, -1 without one; peg_count is
\* the number of peg cells of the decoded board, the center-as-peg among
\* them.
C11_InitDecodes ==
    [][(InitCall /\ pc' = "ready")
          => /\ Len(board') = Len(input)
             /\ \A i \in 1 .. Len(input) :
                   board'[i] = (IF input[i] = CenterHole THEN Hole
                                ELSE IF input[i] = CenterPeg THEN Peg
                                ELSE input[i])
             /\ center' = DeclaredCenter
             /\ peg_count' = Cardinality(PegsOf(board'))]_vars

\* a Solver just built from a board with a center-as-peg marker among
\* other pegs
C11_Witness ==
    /\ pc = "ready" /\ result = "none"
    /\ center >= 0
    /\ At(input, center) = CenterPeg
    /\ At(board, center) = Peg
    /\ peg_count >= 2
    /\ Len(board) = Len(input)

\* the input as a grid: the rows are the runs of cells between line breaks
\* (a line break at the very end opens no row)
Cells == {i \in 0 .. Len(input) - 1 : At(input, i) # NL}

RowOf(i) == Cardinality({j \in 0 .. i - 1 : At(input, j) = NL})

ColOf(i) ==
    LET S == {j \in 0 .. i - 1 : At(input, j) = NL}
    IN IF S = {} THEN i
       ELSE i - 1 - (CHOOSE j \in S : \A k \in S : k <= j)

RowCountOf ==
    Cardinality({j \in 0 .. Len(input) - 1 : At(input, j) = NL})
       + (IF input # <<>> /\ input[Len(input)] # NL THEN 1 ELSE 0)

WidthOfRow(r) == Cardinality({i \in Cells : RowOf(i) = r})

FirstRowWidth == WidthOfRow(0)

\* the cell lies in the two outermost rows or columns of the grid
OnBorder(i) ==
    \/ RowOf(i) < 2 \/ RowOf(i) >= RowCountOf - 2
    \/ ColOf(i) < 2 \/ ColOf(i) >= FirstRowWidth - 2

Playable == {Peg, Hole, CenterHole, CenterPeg}

BorderIsDots ==
    \A i \in Cells :
       IF OnBorder(i) THEN At(input, i) = Dot
       ELSE At(input, i) \in Playable \cup {Dot}

SameWidthRows == \A r \in 0 .. RowCountOf - 1 : WidthOfRow(r) = FirstRowWidth

\* C12: validate_board accepts a board only if every cell of its two
\* outermost rows and columns is '.' and every interior cell is '.', a peg,
\* a hole or a center marker; the English cross is accepted.
C12_BorderIsDots ==
    /\ pc = "ready" => BorderIsDots
    /\ (input = BOARD /\ pc # "new") => pc = "ready"

\* C13: validate_board returns false for every board in which some row,
\* the last one included, is not as wide as the first row.
C13_RaggedRejected == pc = "ready" => SameWidthRows

\* a board that is well formed whatever its width
WellFormed ==
    /\ input # <<>> /\ input[Len(input)] # NL
    /\ SameWidthRows
    /\ BorderIsDots
    /\ Cardinality(CenterMarkers(input)) <= 1

\* C14: a well-formed board is accepted exactly when the width of its rows,
\* the line-break slot counted, is at most MAX_COLUMN_COUNT.
C14_ColumnBoundInclusive ==
    [][(InitCall /\ WellFormed)
          => (pc' = "ready" <=> FirstRowWidth + 1 <= MAX_COLUMN_COUNT)]_vars

\* C15: validate_board, and init with it, returns on every text: no
\* subtraction underflows and nothing panics.
C15_ValidateNeverPanics == pc # "init_panicked"

\* C16: on every Solver init returned Ok for, whatever row_length it was
\* given, each index pos + step and pos + 2 * step that find_next_move
\* reads (and make_move / unmove then write) during solve() lies inside
\* the board, for each of the four steps.
C16_IndexesInsideBoard == (pc = "solving" /\ LoopCond) => ~Found.oob

\* C17 as stated: on the English cross whose center is declared as a peg
\* (33 pegs, no hole) solve() returns true with a solution of 31 jumps.
C17_FullCrossSolved ==
    (input = BOARD_FULL /\ FirstReturned)
        => /\ result = "true"
           /\ Cardinality({i \in 1 .. Len(solution) :
                              solution[i].direction # "Still"}) = 31

\* C17, amended: on that cross no jump is legal, so solve() makes no move,
\* returns false and leaves the solution empty.
C17_FullCrossUnsolvable ==
    input = BOARD_FULL
        => /\ moves = <<>>
           /\ solution = <<>>
           /\ pc # "panicked"
           /\ Returned => result = "false"

C17_Witness ==
    /\ input = BOARD_FULL
    /\ Returned /\ result = "false"
    /\ peg_count = 33
    /\ center = DeclaredCenter /\ At(board, center) = Peg
    /\ \A i \in Cells : At(board, i) # Hole

\* the k-th pair of the scan order on board b: the peg with k \div 4 pegs
\* before it, and the (k % 4)-th of Left, Up, Right, Down
PairAt(b, k) ==
    LET p == CHOOSE q \in PegsOf(b) :
                Cardinality({x \in PegsOf(b) : x < q}) = k \div 4
    IN <<p, <<-1, -row_length, 1, row_length>>[(k % 4) + 1]>>

PairCount(b) == 4 * Cardinality(PegsOf(b))

\* C18: a backtrack pops the most recent move, reverts it, and resumes the
\* scan right after the index recorded with it, an index that on the
\* reverted board designates that same (peg, direction); and within one
\* solve() call no move is applied a second time after the same sequence
\* of preceding moves.
C18_BacktrackResumes ==
    [][ /\ Backtrack =>
              LET m == moves[Len(moves)] IN
                 /\ moves' = SubSeq(moves, 1, Len(moves) - 1)
                 /\ JumpOk(board', m[1], m[2])
                 /\ Jump(board', m[1], m[2]) = board
                 /\ skip_items' = m[3] + 1
                 /\ m[3] < PairCount(board')
                 /\ PairAt(board', m[3]) = <<m[1], m[2]>>
        /\ Descend =>
              LET m == moves'[Len(moves')] IN
                 <<m[1], m[2]>> \notin tried[Len(tried)] ]_vars

\* the search came back to a prefix and applied a second move after it
C18_Witness ==
    /\ pc = "solving"
    /\ \E d \in 1 .. Len(tried) : Cardinality(tried[d]) >= 2

\* the indexes, from skip on, of the pairs of the scan order that are
\* legal jumps on b
LegalIndexes(b, skip) ==
    {k \in skip .. PairCount(b) - 1 :
        JumpOk(b, PairAt(b, k)[1], PairAt(b, k)[2])}

\* C19: find_next_move enumerates the pairs (peg position ascending, then
\* Left, Up, Right, Down), skips the first skip_items of them and returns
\* the first remaining pair that is a legal jump, with its index in the
\* whole enumeration; it returns (-1, 0, 0) exactly when no pair from
\* skip_items on is legal; a descend restarts the scan at index 0.
C19_ScanOrder ==
    [][ /\ (pc = "solving" /\ LoopCond /\ ~Found.oob) =>
              LET f == Found
                  L == LegalIndexes(board, skip_items)
              IN /\ (f.pos = -1 /\ f.dir = 0 /\ f.index = 0) <=> (L = {})
                 /\ L # {} =>
                       /\ f.index \in L
                       /\ \A k \in L : f.index <= k
                       /\ <<f.pos, f.dir>> = PairAt(board, f.index)
        /\ Descend => skip_items' = 0 ]_vars

\* a scan resumed after a backtrack: it skipped a legal pair and found a
\* later one
C19_Witness ==
    /\ pc = "solving" /\ LoopCond
    /\ skip_items > 0
    /\ LegalIndexes(board, 0) # LegalIndexes(board, skip_items)
    /\ Found.pos > 0 /\ ~Found.oob
    /\ Found.index > skip_items

\* the board reached from b by the jumps ms[i], ms[i + 1], ...; the empty
\* sequence if one of them is not a legal jump where it is applied
RECURSIVE LegallyApplied(_, _, _)
LegallyApplied(b, ms, i) ==
    IF i > Len(ms) THEN b
    ELSE IF ~JumpOk(b, ms[i][1], ms[i][2]) THEN <<>>
    ELSE LegallyApplied(Jump(b, ms[i][1], ms[i][2]), ms, i + 1)

\* C20: at the start of every iteration of the loop of solve() the board
\* is the board at entry with the stacked moves applied in order, each a
\* legal jump where it is applied; the pegs on the board number peg_count
\* minus the depth of the stack; the depth is at most peg_count - 1 (as
\* the code computes it: wrapped above every depth when peg_count is 0);
\* and a solve() that returns false leaves the board as it was at entry.
C20_LoopInvariant ==
    [][ /\ (pc = "solving" /\ LoopCond) =>
              /\ board = LegallyApplied(board_clone, moves, 1)
              /\ Cardinality(PegsOf(board)) = peg_count - Len(moves)
              /\ Underflows \/ Len(moves) <= peg_count - 1
        /\ ReturnFalse => board' = board_clone ]_vars

\* the steps of the four directions on the Solver's board
StepsOf == {-1, 1, -row_length, row_length}

\* C21: for every board, position and step with peg, peg, hole at pos,
\* pos + step, pos + 2 * step, make_move sets exactly those three cells to
\* hole, hole, peg, unmove sets them back to peg, peg, hole, and make_move
\* followed by unmove with the same (pos, step) gives the board back cell
\* for cell.
C21_MoveUnmoveRoundTrip ==
    pc \in {"ready", "solving"} =>
       \A p \in PegsOf(board) : \A d \in StepsOf :
          JumpOk(board, p, d) =>
             LET after == make_move(board, p, d)
                 back == unmove(after, p, d)
             IN /\ Len(after) = Len(board)
                /\ \A i \in 0 .. Len(board) - 1 :
                      At(after, i) = (IF i \in {p, p + d} THEN Hole
                                      ELSE IF i = p + 2 * d THEN Peg
                                      ELSE At(board, i))
                /\ At(back, p) = Peg /\ At(back, p + d) = Peg
                /\ At(back, p + 2 * d) = Hole
                /\ back = board

\* a board in the middle of a search with a legal jump along a column
C21_Witness ==
    /\ pc = "solving" /\ RowLengthOk
    /\ moves # <<>>
    /\ \E p \in PegsOf(board) : \E d \in {-row_length, row_length} :
          /\ JumpOk(board, p, d)
          /\ unmove(make_move(board, p, d), p, d) = board

\* board b has the size of board e and every unreachable cell and line
\* break of e unchanged
SameFrame(b, e) ==
    /\ Len(b) = Len(e)
    /\ \A i \in 1 .. Len(e) : e[i] \in {Dot, NL} => b[i] = e[i]

\* C22: during solve() the board keeps its size, every cell that is '.' or
\* a line break in the board at entry keeps that value in every state of
\* the search and in every snapshot the call adds to the solution, each
\* descend or backtrack changes only the three cells of its move, and
\* center, row_length and peg_count do not change.
C22_Frame ==
    [][ /\ pc = "solving" =>
              /\ SameFrame(board, board_clone)
              /\ Len(board') = Len(board)
              /\ UNCHANGED <<center, row_length, peg_count>>
        /\ (Descend \/ Backtrack) =>
              LET m == IF Len(moves') > Len(moves) THEN moves'[Len(moves')]
                       ELSE moves[Len(moves)]
              IN \A i \in 0 .. Len(board) - 1 :
                    i \notin {m[1], m[1] + m[2], m[1] + 2 * m[2]}
                       => At(board', i) = At(board, i)
        /\ ReturnTrue =>
              \A k \in Len(solution) + 1 .. Len(solution') :
                 SameFrame(solution'[k].board, board_clone) ]_vars

\* a search that succeeded with at least two jumps, on a board with
\* unreachable cells and line breaks
C22_Witness ==
    /\ Returned /\ result = "true"
    /\ Len(solution) >= 3
    /\ \E i, j \in 1 .. Len(board) : board[i] = Dot /\ board[j] = NL
    /\ \A k \in 1 .. Len(solution) : SameFrame(solution[k].board, board)
    /\ solution[1].board # board

\* the input is a grid of RowCountOf rows of FirstRowWidth cells each, and
\* the Solver's board is that grid
UniformGrid ==
    /\ input # <<>> /\ input[Len(input)] # NL
    /\ SameWidthRows
    /\ Len(board) = Len(input)

\* clear_border was called on the Solver's board and returned or panicked
BorderCleared ==
    \/ pc = "border_panicked"
    \/ pc = "ready" /\ game_board # <<>>

\* what C23 says clear_border returns for a grid of R rows of C cells
ClearedAsClaimed(R, C) ==
    /\ pc = "ready"
    /\ LET g == game_board[1] IN
          /\ g.row_count = [n |-> R - 4, wrapped |-> FALSE]
          /\ g.column_count = [n |-> C - 4, wrapped |-> FALSE]
          /\ Len(g.board) = (R - 4) * (C - 3)
          /\ \A y \in 0 .. R - 5 :
                /\ g.board[y * (C - 3) + (C - 4) + 1] = NL
                /\ \A x \in 0 .. C - 5 :
                      g.board[y * (C - 3) + x + 1]
                         = At(board, (y + 2) * (C + 1) + x + 2)

\* C23: for a board validate_board accepts, of R rows of C cells each,
\* clear_border returns row_count R - 4, column_count C - 4 and a board of
\* (R - 4) * (C - 3) characters: the interior rows, each followed by a line
\* break, the cell at row y, column x being the input cell at row y + 2,
\* column x + 2.
C23_ClearBorder ==
    (BorderCleared /\ UniformGrid)
        => ClearedAsClaimed(RowCountOf, FirstRowWidth)

====
